---------------------------- MODULE Spec2Model ----------------------------
(***************************************************************************)
(* A model of the Duration library (the final revision of the source:     *)
(* src/unnamed/part_001).                                                  *)
(*                                                                         *)
(* Magnitudes are JavaScript Numbers.  They are modelled as IEEE-754       *)
(* binary64 values: a sign, a 53-bit significand and a binary exponent,    *)
(* with multiplication and division rounded to nearest, ties to even, as   *)
(* the JavaScript operators * and / round them.  The significand does not  *)
(* fit TLC's integers, so it is kept as a little-endian sequence of        *)
(* 15-bit limbs.  Overflow to Infinity, subnormals, NaN and -0 are outside *)
(* every input set used below and are not modelled: the exponent is        *)
(* unbounded, and the properties that bound a rounding error say for which *)
(* magnitudes, and that what was made there was a normal Number.           *)
(*                                                                         *)
(* Strings are sequences of one-character strings, so that pluralize's     *)
(* look at the last character and the concatenation in toString are real.  *)
(***************************************************************************)
EXTENDS Integers, Sequences, FiniteSets, TLC

(***************************************************************************)
(* Natural numbers of any size: little-endian sequences of limbs, without  *)
(* high zero limbs; zero is the empty sequence.                            *)
(***************************************************************************)
LimbBits == 15
Base == 2^LimbBits

Max2(a, b) == IF a >= b THEN a ELSE b

RECURSIVE BigNorm(_)
BigNorm(a) ==
    IF a = <<>> THEN a
    ELSE IF a[Len(a)] = 0 THEN BigNorm(SubSeq(a, 1, Len(a) - 1))
    ELSE a

RECURSIVE BigOfNat(_)
BigOfNat(n) == IF n = 0 THEN <<>> ELSE <<n % Base>> \o BigOfNat(n \div Base)

Limb(a, i) == IF i <= Len(a) THEN a[i] ELSE 0

RECURSIVE BigAddFrom(_, _, _, _)
BigAddFrom(a, b, i, c) ==
    IF i > Len(a) /\ i > Len(b)
    THEN (IF c = 0 THEN <<>> ELSE <<c>>)
    ELSE LET s == Limb(a, i) + Limb(b, i) + c
         IN  <<s % Base>> \o BigAddFrom(a, b, i + 1, s \div Base)

BigAdd(a, b) == BigAddFrom(a, b, 1, 0)

\* a - b, for a >= b
RECURSIVE BigSubFrom(_, _, _, _)
BigSubFrom(a, b, i, c) ==
    IF i > Len(a) THEN <<>>
    ELSE LET d == a[i] - Limb(b, i) - c
         IN  IF d < 0 THEN <<d + Base>> \o BigSubFrom(a, b, i + 1, 1)
             ELSE <<d>> \o BigSubFrom(a, b, i + 1, 0)

BigSub(a, b) == BigNorm(BigSubFrom(a, b, 1, 0))

\* -1, 0 or 1 as a < b, a = b, a > b
RECURSIVE BigCmpFrom(_, _, _)
BigCmpFrom(a, b, i) ==
    IF i = 0 THEN 0
    ELSE IF a[i] < b[i] THEN -1
    ELSE IF a[i] > b[i] THEN 1
    ELSE BigCmpFrom(a, b, i - 1)

BigCmp(a, b) ==
    IF Len(a) < Len(b) THEN -1
    ELSE IF Len(a) > Len(b) THEN 1
    ELSE BigCmpFrom(a, b, Len(a))

\* a * k, for 0 <= k <= Base
RECURSIVE BigMulSmallFrom(_, _, _, _)
BigMulSmallFrom(a, k, i, c) ==
    IF i > Len(a)
    THEN (IF c = 0 THEN <<>> ELSE <<c % Base>> \o
                                  (IF c \div Base = 0 THEN <<>> ELSE <<c \div Base>>))
    ELSE LET p == a[i] * k + c
         IN  <<p % Base>> \o BigMulSmallFrom(a, k, i + 1, p \div Base)

BigMulSmall(a, k) == IF k = 0 THEN <<>> ELSE BigMulSmallFrom(a, k, 1, 0)

BigShiftLimbs(a, n) == IF a = <<>> THEN a ELSE [i \in 1..n |-> 0] \o a

RECURSIVE BigMulFrom(_, _, _)
BigMulFrom(a, b, j) ==
    IF j > Len(b) THEN <<>>
    ELSE BigAdd(BigMulSmall(a, b[j]), BigShiftLimbs(BigMulFrom(a, b, j + 1), 1))

BigMul(a, b) == BigMulFrom(a, b, 1)

\* quotient and remainder of a by a small d (0 < d <= Base), from the top limb down
RECURSIVE BigDivSmallFrom(_, _, _, _)
BigDivSmallFrom(a, d, i, r) ==
    IF i = 0 THEN [q |-> <<>>, r |-> r]
    ELSE LET cur  == r * Base + a[i]
             rest == BigDivSmallFrom(a, d, i - 1, cur % d)
         IN  [q |-> rest.q \o <<cur \div d>>, r |-> rest.r]

BigDivSmall(a, d) ==
    LET x == BigDivSmallFrom(a, d, Len(a), 0) IN [q |-> BigNorm(x.q), r |-> x.r]

RECURSIVE BitLenSmall(_)
BitLenSmall(n) == IF n = 0 THEN 0 ELSE 1 + BitLenSmall(n \div 2)

BitLen(a) == IF a = <<>> THEN 0 ELSE LimbBits * (Len(a) - 1) + BitLenSmall(a[Len(a)])

BigBit(a, i) == (Limb(a, (i \div LimbBits) + 1) \div 2^(i % LimbBits)) % 2

BigShl(a, k) == BigShiftLimbs(BigMulSmall(a, 2^(k % LimbBits)), k \div LimbBits)

BigShr(a, k) ==
    LET n == k \div LimbBits
    IN  IF n >= Len(a) THEN <<>>
        ELSE BigDivSmall(SubSeq(a, n + 1, Len(a)), 2^(k % LimbBits)).q

\* a mod 2^k
BigLow(a, k) ==
    LET n == k \div LimbBits
    IN  IF n >= Len(a) THEN a
        ELSE BigNorm(SubSeq(a, 1, n) \o <<a[n + 1] % 2^(k % LimbBits)>>)

BigOdd(a) == a # <<>> /\ a[1] % 2 = 1

BigOne == <<1>>

Min2(a, b) == IF a <= b THEN a ELSE b

\* One limb of a quotient: the largest k with d * k <= cur, for cur < d * Base
\* and d with its top bit set in its top limb.  The estimate from the top limbs
\* is at most two too large.
RECURSIVE BigDigitFix(_, _, _)
BigDigitFix(cur, d, k) ==
    IF BigCmp(BigMulSmall(d, k), cur) > 0 THEN BigDigitFix(cur, d, k - 1) ELSE k

BigDigit(cur, d) ==
    LET l == Len(d)
    IN  BigDigitFix(cur, d,
            Min2(Base - 1, (Limb(cur, l + 1) * Base + Limb(cur, l)) \div d[l]))

\* long division, one limb of the dividend at a time, from limb i down; q holds
\* the limbs of the quotient found so far and r the remainder
RECURSIVE BigDivModFrom(_, _, _, _, _)

\* k is worked out here, before the next limb, and not when the quotient is read
BigDivModDigit(n, d, i, q, cur, k) ==
    IF k \in 0..(Base - 1)
    THEN BigDivModFrom(n, d, i - 1, <<k>> \o q, BigSub(cur, BigMulSmall(d, k)))
    ELSE [q |-> <<>>, r |-> <<>>]

BigDivModLimb(n, d, i, q, cur) == BigDivModDigit(n, d, i, q, cur, BigDigit(cur, d))

BigDivModFrom(n, d, i, q, r) ==
    IF i = 0 THEN [q |-> q, r |-> r]
    ELSE BigDivModLimb(n, d, i, q, BigNorm(<<n[i]>> \o r))

\* the quotient and the remainder of the scaled division, scaled back
BigDivModBack(x, sh) == [q |-> BigNorm(x.q), r |-> BigDivSmall(x.r, 2^sh).q]

BigDivModScaled(n, d, sh) == BigDivModBack(BigDivModFrom(n, d, Len(n), <<>>, <<>>), sh)

\* divisor and dividend scaled by 2^sh, which sets the top bit of the divisor
BigDivModBy(n, d, sh) == BigDivModScaled(BigMulSmall(n, 2^sh), BigMulSmall(d, 2^sh), sh)

\* quotient and remainder of n by d, d # 0
BigDivMod(n, d) ==
    IF d = BigOne THEN [q |-> n, r |-> <<>>]
    ELSE BigDivModBy(n, d, LimbBits - BitLenSmall(d[Len(d)]))

RECURSIVE BigPow(_, _)
BigPow(k, n) == IF n = 0 THEN BigOne ELSE BigMulSmall(BigPow(k, n - 1), k)

(***************************************************************************)
(* JavaScript Numbers: [sg, m, e] is (-1)^sg * m * 2^e with m of exactly   *)
(* SigBits bits; zero is [sg |-> 0, m |-> <<>>, e |-> 0].                  *)
(***************************************************************************)
SigBits == 53

DZero == [sg |-> 0, m |-> <<>>, e |-> 0]

\* m * 2^e for m of SigBits or SigBits + 1 bits
Renormalize(sg, m, e) ==
    IF BitLen(m) > SigBits THEN [sg |-> sg, m |-> BigShr(m, 1), e |-> e + 1]
    ELSE [sg |-> sg, m |-> m, e |-> e]

\* top, or the next integer when the part cut off is above a half (c > 0), or
\* is a half (c = 0) and there is more below it or top is odd
RoundNearest(sg, top, c, sticky, e) ==
    Renormalize(sg, IF c > 0 \/ (c = 0 /\ (sticky \/ BigOdd(top)))
                    THEN BigAdd(top, BigOne) ELSE top, e)

\* q of bl bits
RoundBits(sg, q, sticky, e, bl) ==
    IF bl <= SigBits
    THEN [sg |-> sg, m |-> BigShl(q, SigBits - bl), e |-> e - (SigBits - bl)]
    ELSE RoundNearest(sg, BigShr(q, bl - SigBits),
                      BigCmp(BigLow(q, bl - SigBits), BigShl(BigOne, bl - SigBits - 1)),
                      sticky, e + (bl - SigBits))

\* (q + a little, when sticky) * 2^e, rounded to nearest, ties to even
RoundToDouble(sg, q, sticky, e) ==
    IF q = <<>> THEN DZero ELSE RoundBits(sg, q, sticky, e, BitLen(q))

DFromQuotient(sg, qr, e) == RoundToDouble(sg, qr.q, qr.r # <<>>, e)

DFromShifted(sg, n, d, e, sh) == DFromQuotient(sg, BigDivMod(BigShl(n, sh), d), e - sh)

\* the Number nearest to (-1)^sg * (n / d) * 2^e
DFromRatio(sg, n, d, e) ==
    IF n = <<>> THEN DZero
    ELSE DFromShifted(sg, n, d, e, Max2(0, SigBits + 2 + BitLen(d) - BitLen(n)))

\* the Number of an integer literal
DInt(k) == IF k < 0 THEN RoundToDouble(1, BigOfNat(-k), FALSE, 0)
           ELSE RoundToDouble(0, BigOfNat(k), FALSE, 0)

\* the Number of a decimal literal k / 10^digits
DDec(k, digits) ==
    IF k < 0 THEN DFromRatio(1, BigOfNat(-k), BigPow(10, digits), 0)
    ELSE DFromRatio(0, BigOfNat(k), BigPow(10, digits), 0)

\* the Number of a literal k e n (k * 10^n), for k >= 0 and n >= 0
DSci(k, n) == DFromRatio(0, BigMul(BigOfNat(k), BigPow(10, n)), BigOne, 0)

\* JavaScript x * y
DMul(x, y) ==
    IF x.m = <<>> \/ y.m = <<>> THEN DZero
    ELSE RoundToDouble((x.sg + y.sg) % 2, BigMul(x.m, y.m), FALSE, x.e + y.e)

\* JavaScript x / y, for y # 0
DDiv(x, y) ==
    IF x.m = <<>> THEN DZero
    ELSE DFromRatio((x.sg + y.sg) % 2, x.m, y.m, x.e - y.e)

\* JavaScript x < y
DLt(x, y) ==
    LET magLt(a, b) ==     \* |a| < |b|, both non-zero
            a.e < b.e \/ (a.e = b.e /\ BigCmp(a.m, b.m) < 0)
    IN  IF x.m = <<>> THEN y.m # <<>> /\ y.sg = 0
        ELSE IF y.m = <<>> THEN x.sg = 1
        ELSE IF x.sg # y.sg THEN x.sg = 1
        ELSE IF x.sg = 0 THEN magLt(x, y)
        ELSE magLt(y, x)

\* JavaScript x >= y
DGe(x, y) == ~DLt(x, y)

(***************************************************************************)
(* JavaScript values that cross the API: property keys and unit names are  *)
(* atoms, text that is looked into or concatenated is a character          *)
(* sequence, a magnitude is a Number, a precision is a small integer.      *)
(***************************************************************************)
JSUndef    == [t |-> "undefined"]
JSStr(s)   == [t |-> "string", s |-> s]
JSChars(c) == [t |-> "string", chars |-> c]
JSNum(d)   == [t |-> "number", n |-> d]
JSInt(i)   == [t |-> "number", i |-> i]
JSBool(b)  == [t |-> "boolean", b |-> b]
JSRef(r)   == [t |-> "object", ref |-> r]
JSThrow    == [t |-> "TypeError"]

\* ToBoolean, as ! and || apply it
Truthy(v) ==
    CASE v.t = "undefined" -> FALSE
      [] v.t = "boolean"   -> v.b
      [] v.t = "string"    -> IF "s" \in DOMAIN v THEN v.s # "" ELSE v.chars # <<>>
      [] v.t = "number"    -> IF "i" \in DOMAIN v THEN v.i # 0 ELSE v.n.m # <<>>
      [] OTHER             -> TRUE

(***************************************************************************)
(* The unit table.                                                         *)
(***************************************************************************)
units ==
    [ms  |-> [full  |-> <<"m","i","l","l","i","s","e","c","o","n","d">>,
              abbr  |-> <<"m","s">>, ref |-> 0],
     s   |-> [full  |-> <<"s","e","c","o","n","d">>,
              abbr  |-> <<"s">>, ref |-> 1],
     min |-> [full  |-> <<"m","i","n","u","t","e">>,
              abbr  |-> <<"m","i","n">>, ref |-> 2],
     hr  |-> [full  |-> <<"h","o","u","r">>,
              abbr  |-> <<"h","r">>, ref |-> 3],
     day |-> [full  |-> <<"d","a","y">>,
              abbr  |-> <<"d","a","y">>, ref |-> 4],
     wk  |-> [full  |-> <<"w","e","e","k">>,
              abbr  |-> <<"w","k">>, ref |-> 5],
     mo  |-> [full  |-> <<"m","o","n","t","h">>,
              abbr  |-> <<"m","o">>, ref |-> 6],
     yr  |-> [full  |-> <<"y","e","a","r">>,
              abbr  |-> <<"y","r">>, ref |-> 7]]

\* The own keys of units.
UnitKeys == DOMAIN units

\* units is an object literal: it inherits the properties of Object.prototype,
\* and the in operator and units[s] see them too.
ProtoKeys ==
    {"constructor", "hasOwnProperty", "isPrototypeOf", "propertyIsEnumerable",
     "toLocaleString", "toString", "valueOf", "__proto__",
     "__defineGetter__", "__defineSetter__", "__lookupGetter__", "__lookupSetter__"}

\* s in units (the key of a value that is no string is its text: "undefined",
\* "3", "true", none of them a property of units)
InUnits(v) == v.t = "string" /\ "s" \in DOMAIN v /\ v.s \in UnitKeys \cup ProtoKeys

\* unitRefs[7].next is null; the only operation that can meet it is n >= max,
\* where null converts to +0.
unitRefs ==
    << [unit |-> "ms",  next |-> DInt(1000)],
       [unit |-> "s",   next |-> DInt(60)],
       [unit |-> "min", next |-> DInt(60)],
       [unit |-> "hr",  next |-> DInt(24)],
       [unit |-> "day", next |-> DInt(7)],
       [unit |-> "wk",  next |-> DDec(4345238, 6)],
       [unit |-> "mo",  next |-> DInt(12)],
       [unit |-> "yr",  next |-> DZero] >>

\* unitRefs is indexed from 0 in the source
RefAt(r) == unitRefs[r + 1]

\* The value of a property that an inherited member of units does not have.
NoRef == -1

\* unitRef(s) for a string s in units: units[s]['ref']
unitRef(s) == IF s \in UnitKeys THEN units[s].ref ELSE NoRef

pluralize(s) == IF s # <<>> /\ s[Len(s)] = "s" THEN s ELSE s \o <<"s">>

options == [abbr |-> TRUE, precision |-> 2]

(***************************************************************************)
(* new Duration(n, b, opts): opts is given as its two properties, an       *)
(* absent property (or an absent opts) being undefined.                    *)
(***************************************************************************)
Duration(n, b, precision, abbr) ==
    [duration  |-> IF n.t = "number" /\ "n" \in DOMAIN n THEN n.n ELSE DInt(1),
     unit      |-> IF InUnits(b) THEN b.s ELSE "hr",
     precision |-> IF precision.t = "number" THEN precision.i ELSE options.precision,
     abbr      |-> IF abbr.t = "boolean" THEN abbr.b ELSE options.abbr]

\* The two loops of Duration.convert: n rescaled from rank cu to rank du.
\* A comparison with undefined is false, so neither loop runs.
RECURSIVE Rescale(_, _, _)
\* A slip the walk along the table catches: an if in place of each while, so
\* that only the first factor is applied.
Rescale_oneStep(n, cu, du) ==
    IF cu = NoRef \/ du = NoRef THEN n
    ELSE IF du < cu THEN DMul(n, RefAt(cu - 1).next)
    ELSE IF du > cu THEN DDiv(n, RefAt(cu).next)
    ELSE n

\* A slip the round-trip property catches: the loop going to the finer unit
\* multiplies by the factor of the unit it leaves, before it steps down.
Rescale_staleFactor(n, cu, du) ==
    IF cu = NoRef \/ du = NoRef THEN n
    ELSE IF du < cu THEN Rescale(DMul(n, RefAt(cu).next), cu - 1, du)
    ELSE IF du > cu THEN Rescale(DDiv(n, RefAt(cu).next), cu + 1, du)
    ELSE n

Rescale(n, cu, du) ==
    IF cu = NoRef \/ du = NoRef THEN n
    ELSE IF du < cu THEN Rescale(DMul(n, RefAt(cu - 1).next), cu - 1, du)
    ELSE IF du > cu THEN Rescale(DDiv(n, RefAt(cu).next), cu + 1, du)
    ELSE n

\* The rank convert and concise take for a unit argument.
RankOf(u) == IF u.t = "string" /\ InUnits(u) THEN unitRef(u.s) ELSE unitRef("hr")

\* Duration.convert(n, from, to, precision): the new Duration, or a TypeError
\* from unitRefs[undefined]['unit'].
Duration_convert(n, from, to, precision) ==
    LET p  == IF Truthy(precision) THEN precision ELSE JSInt(2)
        cu == RankOf(from)
        du == RankOf(to)
    IN  IF du = NoRef THEN [ok |-> FALSE]
        ELSE [ok |-> TRUE,
              d  |-> Duration(JSNum(Rescale(n, cu, du)), JSStr(RefAt(du).unit),
                              p, JSUndef)]

\* Duration.concise(n, u, p): the new Duration and the ranks of the successive
\* calls, or a TypeError from unitRefs[undefined].next.  The call for the finer
\* unit passes p on; the call for the coarser unit does not.
RECURSIVE Duration_concise(_, _, _)

\* A slip the keeping of the time span catches: new Duration(n), the unit left
\* out.
ConciseHere_noUnit(n, u, p, ref) ==
    [ok |-> TRUE, d |-> Duration(JSNum(n), JSUndef, p, JSUndef), path |-> <<ref>>]

ConciseHere(n, u, p, ref) ==
    [ok |-> TRUE, d |-> Duration(JSNum(n), u, p, JSUndef), path |-> <<ref>>]

ConciseReturn(ref, r) == IF r.ok THEN [r EXCEPT !.path = <<ref>> \o r.path] ELSE r

\* return Duration.concise(next.duration(), next.unit(), q)
ConciseNext(ref, next, q) ==
    IF ~next.ok THEN [ok |-> FALSE]
    ELSE ConciseReturn(ref, Duration_concise(next.d.duration, JSStr(next.d.unit), q))

\* A slip the range property catches: n > max in place of n >= max.
ConciseAt_strictUpper(n, u, p, ref) ==
    IF ref = NoRef THEN [ok |-> FALSE]
    ELSE IF DLt(n, DInt(1))
    THEN IF ref <= 0 THEN ConciseHere(n, u, p, ref)
         ELSE ConciseNext(ref, Duration_convert(n, u, JSStr(RefAt(ref - 1).unit), p), p)
    ELSE IF DLt(RefAt(ref).next, n)
    THEN IF ref >= Len(unitRefs) - 1 THEN ConciseHere(n, u, p, ref)
         ELSE ConciseNext(ref, Duration_convert(n, u, JSStr(RefAt(ref + 1).unit), p), JSUndef)
    ELSE ConciseHere(n, u, p, ref)

ConciseAt(n, u, p, ref) ==
    IF ref = NoRef THEN [ok |-> FALSE]
    ELSE IF DLt(n, DInt(1))
    THEN IF ref <= 0 THEN ConciseHere(n, u, p, ref)
         ELSE ConciseNext(ref, Duration_convert(n, u, JSStr(RefAt(ref - 1).unit), p), p)
    ELSE IF DGe(n, RefAt(ref).next)
    THEN IF ref >= Len(unitRefs) - 1 THEN ConciseHere(n, u, p, ref)
         ELSE ConciseNext(ref, Duration_convert(n, u, JSStr(RefAt(ref + 1).unit), p), JSUndef)
    ELSE ConciseHere(n, u, p, ref)

Duration_concise(n, u, p) == ConciseAt(n, u, p, RankOf(u))


(***************************************************************************)
(* Number::toString, the conversion that d + sep applies to the magnitude: *)
(* the shortest decimal s * 10^(n-k), of k digits, that reads back as the  *)
(* same Number (the closest such, when several), laid out as ECMAScript    *)
(* lays it out.                                                            *)
(***************************************************************************)
DigitChars == <<"0", "1", "2", "3", "4", "5", "6", "7", "8", "9">>

RECURSIVE NatChars(_)
NatChars(n) ==
    IF n < 10 THEN <<DigitChars[n + 1]>>
    ELSE NatChars(n \div 10) \o <<DigitChars[(n % 10) + 1]>>

RECURSIVE BigChars(_)
BigCharsLast(x) == BigChars(x.q) \o <<DigitChars[x.r + 1]>>
BigChars(a) == IF a = <<>> THEN <<>> ELSE BigCharsLast(BigDivSmall(a, 10))

\* 10^n by steps of 10^4
RECURSIVE BigPow10(_)
BigPow10(n) ==
    IF n < 4 THEN BigOfNat(10^n) ELSE BigMulSmall(BigPow10(n - 4), 10000)

\* The Number as the fraction r / s, in quarters of its last binary place.
QuarterNum(x) == IF x.e >= 0 THEN BigShl(x.m, x.e + 2) ELSE BigShl(x.m, 2)
QuarterDen(x) == IF x.e >= 0 THEN <<4>> ELSE BigShl(BigOne, 2 - x.e)

\* |x| >= 10^n
GeqPow10(x, n) ==
    IF n >= 0 THEN BigCmp(QuarterNum(x), BigMul(QuarterDen(x), BigPow10(n))) >= 0
    ELSE BigCmp(BigMul(QuarterNum(x), BigPow10(-n)), QuarterDen(x)) >= 0

\* The n with 10^(n-1) <= |x| < 10^n, from an estimate by the binary exponent.
RECURSIVE DecExpFrom(_, _)
DecExpFrom(x, n) ==
    IF GeqPow10(x, n) THEN DecExpFrom(x, n + 1)
    ELSE IF ~GeqPow10(x, n - 1) THEN DecExpFrom(x, n - 1)
    ELSE n

DecExp(x) == DecExpFrom(x, ((x.e + SigBits) * 30103) \div 100000)

\* A quarter of the last binary place of x, in the units of QuarterNum.
Quart(x) == IF x.e >= 0 THEN BigShl(BigOne, x.e) ELSE BigOne

\* The Numbers below a power of two lie twice as close: the gap below x is
\* one quarter wide in halves, where the gap above is two.
GapBelow(x) == IF x.m = BigShl(BigOne, SigBits - 1) THEN 1 ELSE 2

\* m quarters of the last place of x, on the scale 10^t of the decimal (p = 10^|t|)
HalfGap(x, t, p, m) ==
    IF t >= 0 THEN BigMulSmall(Quart(x), m) ELSE BigMul(p, BigMulSmall(Quart(x), m))

\* a decimal at distance c (-1 below, 0 at, 1 above) of the half gap reads back
\* as x: the ends included when the significand is even
ReadsBack(x, c) == c < 0 \/ (c = 0 /\ ~BigOdd(x.m))

Within(x, dist, lim) == ReadsBack(x, BigCmp(dist, lim))

\* of the two decimals qr.q and qr.q + 1, the closer one that reads back as x
ShortestPick(qr, lowOk, highOk, c2) ==
    [ok |-> lowOk \/ highOk,
     s  |-> IF lowOk /\ (~highOk \/ c2 < 0 \/ (c2 = 0 /\ ~BigOdd(qr.q)))
            THEN qr.q ELSE BigAdd(qr.q, BigOne)]

ShortestNear(x, t, p, den, qr) ==
    ShortestPick(qr,
                 Within(x, qr.r, HalfGap(x, t, p, GapBelow(x))) /\ BitLen(qr.q) > 0,
                 Within(x, BigSub(den, qr.r), HalfGap(x, t, p, 2)),
                 BigCmp(BigMulSmall(qr.r, 2), den))

ShortestRatio(x, t, p, num, den) == ShortestNear(x, t, p, den, BigDivMod(num, den))

ShortestScaled(x, t, p) ==
    ShortestRatio(x, t, p,
                  IF t >= 0 THEN QuarterNum(x) ELSE BigMul(QuarterNum(x), p),
                  IF t >= 0 THEN BigMul(QuarterDen(x), p) ELSE QuarterDen(x))

\* The k-digit decimals below and above x, and which of them read back as x:
\* those within half a last place of x (a quarter below a power of two), the
\* ends included when the significand is even.
ShortestAt(x, n, k) ==
    ShortestScaled(x, n - k, BigPow10(IF n - k >= 0 THEN n - k ELSE k - n))

\* Seventeen digits always suffice to tell one Number from its neighbours.
MaxDigits == 17

\* the k digits cs, or the k + 1 digits 10...0 that rounding up has reached
ShortestDigits(n, k, cs) ==
    IF Len(cs) > k THEN [digits |-> <<"1">>, n |-> n + 1]
    ELSE [digits |-> cs, n |-> n]

ShortestOf(n, k, r) == ShortestDigits(n, k, BigChars(r.s))

\* The least k in lo..hi at which a decimal reads back as x, when one does at
\* hi: one that reads back at k digits reads back at every greater k, so the
\* least k is found by halving.
RECURSIVE ShortestBetween(_, _, _, _)
ShortestBetween(x, n, lo, hi) ==
    IF lo >= hi THEN hi
    ELSE IF ShortestAt(x, n, (lo + hi) \div 2).ok
         THEN ShortestBetween(x, n, lo, (lo + hi) \div 2)
         ELSE ShortestBetween(x, n, (lo + hi) \div 2 + 1, hi)

ShortestWith(x, n, k) == ShortestOf(n, k, ShortestAt(x, n, k))

\* The digits of the shortest such decimal, and the n of its leading digit.
Shortest(x, n) == ShortestWith(x, n, ShortestBetween(x, n, 1, MaxDigits))

RECURSIVE Zeros(_)
Zeros(n) == IF n <= 0 THEN <<>> ELSE <<"0">> \o Zeros(n - 1)

Exponent(n) ==
    IF n - 1 >= 0 THEN <<"e", "+">> \o NatChars(n - 1) ELSE <<"e", "-">> \o NatChars(1 - n)

\* the k digits ds of a Number with 10^(n-1) <= |x| < 10^n
NumberLayout(ds, k, n) ==
    IF k <= n /\ n <= 21 THEN ds \o Zeros(n - k)
    ELSE IF 0 < n /\ n <= 21 THEN SubSeq(ds, 1, n) \o <<".">> \o SubSeq(ds, n + 1, k)
    ELSE IF -6 < n /\ n <= 0 THEN <<"0", ".">> \o Zeros(-n) \o ds
    ELSE IF k = 1 THEN ds \o Exponent(n)
    ELSE <<ds[1], ".">> \o SubSeq(ds, 2, k) \o Exponent(n)

NumberDigits(sd) == NumberLayout(sd.digits, Len(sd.digits), sd.n)

NumberToString(x) ==
    IF x.m = <<>> THEN <<"0">>
    ELSE (IF x.sg = 1 THEN <<"-">> ELSE <<>>) \o NumberDigits(Shortest(x, DecExp(x)))

(***************************************************************************)
(* decimalRound(v, x), the rounding utility of the source.  No function of *)
(* this revision calls it.  +(digits + 'e' + k) reads a decimal as the     *)
(* nearest Number; Math.round gives the nearest integer, the upper one of  *)
(* two equally near (a result of -0 is kept as 0).                         *)
(***************************************************************************)
DigitValue(c) == CHOOSE i \in 0..9 : DigitChars[i + 1] = c

RECURSIVE BigOfChars(_)
BigOfChars(cs) ==
    IF cs = <<>> THEN <<>>
    ELSE BigAdd(BigMulSmall(BigOfChars(SubSeq(cs, 1, Len(cs) - 1)), 10),
                BigOfNat(DigitValue(cs[Len(cs)])))

\* the Number nearest to (-1)^sg * digits * 10^k
ParseDecimal(sg, cs, k) ==
    IF k >= 0 THEN DFromRatio(sg, BigMul(BigOfChars(cs), BigPow10(k)), BigOne, 0)
    ELSE DFromRatio(sg, BigOfChars(cs), BigPow10(-k), 0)

MathRoundInt(sg, int, c) ==
    IF (sg = 0 /\ c >= 0) \/ (sg = 1 /\ c > 0) THEN BigAdd(int, BigOne) ELSE int

MathRound(x) ==
    IF x.m = <<>> \/ x.e >= 0 THEN x
    ELSE RoundToDouble(x.sg,
                       MathRoundInt(x.sg, BigShr(x.m, -x.e),
                                    BigCmp(BigLow(x.m, -x.e), BigShl(BigOne, -x.e - 1))),
                       FALSE, 0)

ShiftDigits(sg, sd, x) == ParseDecimal(sg, sd.digits, sd.n - Len(sd.digits) + x)

\* v = v.toString().split('e'); +(v[0] + 'e' + (v[1] ? (+v[1] + x) : x))
DecimalShift(v, x) ==
    IF v.m = <<>> THEN DZero ELSE ShiftDigits(v.sg, Shortest(v, DecExp(v)), x)

decimalRound(v, x) ==
    IF x = 0 THEN MathRound(v)
    ELSE DecimalShift(MathRound(DecimalShift(v, x)), -x)

(***************************************************************************)
(* The methods, as functions of the receiver: each gives the receiver      *)
(* after the call (this), and what the call returns: a value, the receiver *)
(* itself (self), a new Duration (new), or a TypeError.                    *)
(***************************************************************************)
RetSelf(d)     == [this |-> d, kind |-> "self"]
RetValue(d, v) == [this |-> d, kind |-> "value", value |-> v]
RetNew(d, n)   == [this |-> d, kind |-> "new", new |-> n]
RetThrow(d)    == [this |-> d, kind |-> "throw"]

Duration_prototype_unit(this, s) ==
    IF ~Truthy(s) THEN RetValue(this, JSStr(this.unit))
    ELSE IF InUnits(s) THEN RetSelf([this EXCEPT !.unit = s.s])
    ELSE RetSelf(this)

Duration_prototype_duration(this, d) ==
    IF d.t = "undefined" THEN RetValue(this, JSNum(this.duration))
    ELSE IF d.t = "number" /\ "n" \in DOMAIN d THEN RetSelf([this EXCEPT !.duration = d.n])
    ELSE RetSelf(this)

Duration_prototype_abbr(this, o) ==
    IF o.t = "undefined" THEN RetValue(this, JSBool(this.abbr))
    ELSE RetSelf([this EXCEPT !.abbr = Truthy(o)])

\* made.abbr(this._abbr), for the Duration the static function made
WithAbbr(this, made) ==
    IF made.ok THEN RetNew(this, Duration_prototype_abbr(made.d, JSBool(this.abbr)).this)
    ELSE RetThrow(this)

\* A slip the frame property catches: the receiver is rescaled in place and
\* returned, no new Duration being made.
InPlace(this, made) ==
    IF made.ok
    THEN RetSelf([this EXCEPT !.duration = made.d.duration, !.unit = made.d.unit])
    ELSE RetThrow(this)

Duration_prototype_to_inPlace(this, u) ==
    InPlace(this, Duration_convert(this.duration, JSStr(this.unit), u,
                                   JSInt(this.precision)))

Duration_prototype_to(this, u) ==
    WithAbbr(this, Duration_convert(this.duration, JSStr(this.unit), u,
                                    JSInt(this.precision)))

Duration_prototype_convert(this, u) == Duration_prototype_to(this, u)

Duration_prototype_concise(this) ==
    WithAbbr(this, Duration_concise(this.duration, JSStr(this.unit),
                                    JSInt(this.precision)))

\* d + sep + pluralize(u); units[this._unit] of an inherited member has no
\* abbr and no full, and pluralize(undefined) throws
Duration_prototype_toString(this, sep) ==
    LET sp == IF sep.t = "string" THEN sep.chars ELSE <<" ">>
    IN  IF this.unit \notin UnitKeys THEN RetThrow(this)
        ELSE LET u == units[this.unit]
                 nm == IF this.abbr THEN u.abbr ELSE u.full
             IN  RetValue(this, JSChars(NumberToString(this.duration) \o sp \o pluralize(nm)))

(***************************************************************************)
(* The state.  heap holds the Duration objects the caller still refers to, *)
(* by identity: the caller goes on with one object, the receiver of its    *)
(* next call, and so lets go of every other one; a call that makes a new   *)
(* Duration adds it under a fresh identity.  last records the latest call: *)
(* its name, its receiver, its arguments, the receiver before it, and what *)
(* it returned.  input is the call a behaviour of the static functions makes. *)
(***************************************************************************)
VARIABLES heap, last, input
vars == <<heap, last, input>>

\* The most Duration objects one behaviour makes, one from the other.
MaxObjs == 2

NoCall  == [op |-> "init", self |-> 0, args |-> <<>>, pre |-> <<>>, ret |-> JSUndef,
            path |-> <<>>]
NoInput == [op |-> "none"]

Live == DOMAIN heap

\* pre is the receiver as it was before the call
Call(op, self, args, ret) ==
    [op |-> op, self |-> self, args |-> args,
     pre |-> IF self \in Live THEN heap[self] ELSE <<>>, ret |-> ret, path |-> <<>>]

\* The heap and the returned value after a call of a method on object i.
Outcome(op, i, args, r) ==
    CASE r.kind = "self" ->
            /\ heap' = (i :> r.this)
            /\ last' = Call(op, i, args, JSRef(i))
      [] r.kind = "value" ->
            /\ heap' = (i :> r.this)
            /\ last' = Call(op, i, args, r.value)
      [] r.kind = "new" ->
            /\ heap' = (i :> r.this) @@ ((i + 1) :> r.new)
            /\ last' = Call(op, i, args, JSRef(i + 1))
      [] r.kind = "throw" ->
            /\ heap' = (i :> r.this)
            /\ last' = Call(op, i, args, JSThrow)

(***************************************************************************)
(* The arguments the caller draws from.                                    *)
(***************************************************************************)
NewMagnitudes == {JSUndef, JSNum(DInt(90)), JSNum(DInt(-1))}
NewUnits      == {JSUndef, JSStr("min"), JSStr("bogus"), JSStr("constructor")}
Precisions    == {JSUndef, JSInt(0), JSInt(3)}
NewAbbrs      == {JSUndef, JSBool(FALSE)}
ToUnits       == {JSStr("min"), JSStr("day"), JSStr("bogus"), JSStr("constructor")}
SetUnits      == {JSUndef, JSStr(""), JSStr("min"), JSStr("bogus"), JSStr("constructor")}
SetMagnitudes == {JSUndef, JSNum(DInt(90)), JSBool(TRUE)}
SetAbbrs      == {JSUndef, JSBool(TRUE), JSInt(0)}
Separators    == {JSUndef, JSChars(<<>>), JSChars(<<"-">>)}

New(n, b, precision, abbr) ==
    /\ Live = {}
    /\ heap' = (1 :> Duration(n, b, precision, abbr))
    /\ last' = Call("new", 0, <<n, b, precision, abbr>>, JSRef(1))
    /\ UNCHANGED input

To(i, u) ==
    /\ i \in Live /\ i < MaxObjs
    /\ Outcome("to", i, <<u>>, Duration_prototype_to(heap[i], u))
    /\ UNCHANGED input

ConvertTo(i, u) ==
    /\ i \in Live /\ i < MaxObjs
    /\ Outcome("convert", i, <<u>>, Duration_prototype_convert(heap[i], u))
    /\ UNCHANGED input

MakeConcise(i) ==
    /\ i \in Live /\ i < MaxObjs
    /\ Outcome("concise", i, <<>>, Duration_prototype_concise(heap[i]))
    /\ UNCHANGED input

Unit(i, s) ==
    /\ i \in Live
    /\ Outcome("unit", i, <<s>>, Duration_prototype_unit(heap[i], s))
    /\ UNCHANGED input

SetDuration(i, d) ==
    /\ i \in Live
    /\ Outcome("duration", i, <<d>>, Duration_prototype_duration(heap[i], d))
    /\ UNCHANGED input

Abbr(i, o) ==
    /\ i \in Live
    /\ Outcome("abbr", i, <<o>>, Duration_prototype_abbr(heap[i], o))
    /\ UNCHANGED input

CallToString(i, sep) ==
    /\ i \in Live
    /\ Outcome("toString", i, <<sep>>, Duration_prototype_toString(heap[i], sep))
    /\ UNCHANGED input

Init == heap = <<>> /\ last = NoCall /\ input = NoInput

Next ==
    \/ \E n \in NewMagnitudes, b \in NewUnits, p \in Precisions, a \in NewAbbrs :
          New(n, b, p, a)
    \/ \E i \in Live, u \in ToUnits : To(i, u)
    \/ \E i \in Live, u \in ToUnits : ConvertTo(i, u)
    \/ \E i \in Live : MakeConcise(i)
    \/ \E i \in Live, s \in SetUnits : Unit(i, s)
    \/ \E i \in Live, d \in SetMagnitudes : SetDuration(i, d)
    \/ \E i \in Live, o \in SetAbbrs : Abbr(i, o)
    \/ \E i \in Live, sep \in Separators : CallToString(i, sep)

Spec == Init /\ [][Next]_vars

(***************************************************************************)
(* The static functions, called on their own: input is the call, made once *)
(* from the initial state.  After a Duration.convert the caller may        *)
(* convert the magnitude it got back the other way; after a                *)
(* Duration.concise it may convert what it got back to the unit it gave,   *)
(* or call Duration.concise on it again.                                   *)
(***************************************************************************)
StaticMagnitudes ==
    {DZero, DDec(5, 1), DInt(1), DInt(5), DInt(60), DInt(90), DInt(-1), DSci(1, 15)}
StaticUnits ==
    {JSStr(k) : k \in UnitKeys}
        \cup {JSStr("bogus"), JSStr("constructor"), JSStr("__proto__"), JSUndef}

ConvertInputs ==
    [op : {"convert"}, n : StaticMagnitudes, from : StaticUnits, to : StaticUnits,
     p : Precisions]
ConciseInputs ==
    [op : {"concise"}, n : StaticMagnitudes, u : StaticUnits, p : Precisions]

\* The heap and the returned value after a static call that made Duration made.
StaticOutcome(op, args, made, id) ==
    /\ heap' = IF made.ok THEN heap @@ (id :> made.d) ELSE heap
    /\ last' = [op |-> op, self |-> 0, args |-> args, pre |-> <<>>,
                ret |-> IF made.ok THEN JSRef(id) ELSE JSThrow,
                path |-> IF made.ok /\ "path" \in DOMAIN made THEN made.path ELSE <<>>]

StaticConvert ==
    /\ input.op = "convert" /\ last.op = "init"
    /\ StaticOutcome("Duration.convert", <<JSNum(input.n), input.from, input.to, input.p>>,
                     Duration_convert(input.n, input.from, input.to, input.p), 1)
    /\ UNCHANGED input

\* Duration.convert(there.duration(), to, from, p), for the Duration there that
\* Duration.convert(n, from, to, p) returned
StaticConvertBack ==
    /\ last.op = "Duration.convert" /\ last.ret.t = "object"
    /\ StaticOutcome("Duration.convert.back",
                     <<JSNum(heap[1].duration), input.to, input.from, input.p>>,
                     Duration_convert(heap[1].duration, input.to, input.from, input.p), 2)
    /\ UNCHANGED input

StaticConcise ==
    /\ input.op = "concise" /\ last.op = "init"
    /\ StaticOutcome("Duration.concise", <<JSNum(input.n), input.u, input.p>>,
                     Duration_concise(input.n, input.u, input.p), 1)
    /\ UNCHANGED input

\* Duration.convert(there.duration(), there.unit(), u, p), for the Duration
\* there that Duration.concise(n, u, p) returned
StaticConciseBack ==
    /\ last.op = "Duration.concise" /\ last.ret.t = "object"
    /\ StaticOutcome("Duration.concise.back",
                     <<JSNum(heap[1].duration), JSStr(heap[1].unit), input.u, input.p>>,
                     Duration_convert(heap[1].duration, JSStr(heap[1].unit), input.u,
                                      input.p), 2)
    /\ UNCHANGED input

\* Duration.concise(there.duration(), there.unit(), p), for the same there
StaticConciseAgain ==
    /\ last.op = "Duration.concise" /\ last.ret.t = "object"
    /\ StaticOutcome("Duration.concise.again",
                     <<JSNum(heap[1].duration), JSStr(heap[1].unit), input.p>>,
                     Duration_concise(heap[1].duration, JSStr(heap[1].unit), input.p), 2)
    /\ UNCHANGED input

InitStatic ==
    /\ heap = <<>>
    /\ last = NoCall
    /\ input \in ConvertInputs \cup ConciseInputs

NextStatic ==
    \/ StaticConvert
    \/ StaticConvertBack
    \/ StaticConcise
    \/ StaticConciseBack
    \/ StaticConciseAgain

SpecStatic == InitStatic /\ [][NextStatic]_vars

(***************************************************************************)
(* The same static calls on magnitudes up to the ends of the range in      *)
(* which every product and quotient that a conversion makes is a normal    *)
(* Number: 1e-280 <= |n| <= 1e280, the factors from ms to yr multiplying   *)
(* to less than 3.2e10.                                                    *)
(***************************************************************************)
\* the Numbers 1e280 = 4962080516648048 * 2^878 and
\* 1e-280 = 8174961907854212 * 2^-983, the significands in limbs
RangeEnds ==
    [max |-> [sg |-> 0, m |-> <<11376, 19733, 1009, 141>>, e |-> 878],
     min |-> [sg |-> 0, m |-> <<27524, 18723, 11350, 232>>, e |-> -983]]

RangeMagnitudes ==
    {DZero, DDec(5, 1), DInt(90), DInt(-1), DSci(1, 15),
     RangeEnds.max, DMul(DInt(-1), RangeEnds.max),
     RangeEnds.min, DMul(DInt(-1), RangeEnds.min)}

InitRange ==
    /\ heap = <<>>
    /\ last = NoCall
    /\ input \in [op : {"convert"}, n : RangeMagnitudes, from : StaticUnits,
                  to : StaticUnits, p : Precisions]
                 \cup [op : {"concise"}, n : RangeMagnitudes, u : StaticUnits,
                       p : Precisions]

SpecRange == InitRange /\ [][NextStatic]_vars

(***************************************************************************)
(* The search of Duration.concise, one call at a time: last holds the call *)
(* that is running (its arguments, and in path the ranks of the calls made *)
(* before it), and a step is the body of that call up to the call it makes *)
(* to itself, or to its return.  Calls run one after the other on one      *)
(* stack, so a call that has been entered is run: SearchFair is            *)
(* WF_vars(NextSearch) with ENABLED <<NextSearch>>_vars written as         *)
(* Searching, which it is because a call that is running takes one of the  *)
(* four steps.                                                             *)
(***************************************************************************)
\* the largest Number below 1: (2^53 - 1) * 2^-53, the significand in limbs
BelowOne == [sg |-> 0, m |-> <<Base - 1, Base - 1, Base - 1, 255>>, e |-> -SigBits]

SearchMagnitudes == StaticMagnitudes \cup {BelowOne, DDec(1, 3)}
SearchInputs ==
    [op : {"concise"}, n : SearchMagnitudes, u : StaticUnits, p : Precisions]

SearchCall(n, u, p, path) ==
    [op |-> "Duration.concise.call", self |-> 0, args |-> <<JSNum(n), u, p>>,
     pre |-> <<>>, ret |-> JSUndef, path |-> path]

Searching == last.op = "Duration.concise.call"
CallN     == last.args[1].n
CallU     == last.args[2]
CallP     == last.args[3]
\* var ref = ...
CallRef   == RankOf(CallU)

\* A slip the bound on the calls catches: the call for the finer unit converts
\* to the unit it is in, and the search stays where it is.
FinerCall_sameUnit(n, u, p, ref) == Duration_convert(n, u, JSStr(RefAt(ref).unit), p)

\* var prev = Duration.convert(n, u, unitRefs[ref - 1].unit, p)
FinerCall(n, u, p, ref) == Duration_convert(n, u, JSStr(RefAt(ref - 1).unit), p)

\* A slip the step of the rank catches: the call for the coarser unit passes
\* over a unit when there are two above.
CoarserCall_skipsUnit(n, u, p, ref) ==
    Duration_convert(n, u, JSStr(RefAt(IF ref + 2 < Len(unitRefs) THEN ref + 2
                                       ELSE ref + 1).unit), p)

\* var next = Duration.convert(n, u, unitRefs[ref + 1].unit, p)
CoarserCall(n, u, p, ref) == Duration_convert(n, u, JSStr(RefAt(ref + 1).unit), p)

\* n < 1 with a finer unit to go to; n >= max with a coarser one
GoesFiner(n, ref)   == DLt(n, DInt(1)) /\ ~(ref <= 0)
GoesCoarser(n, ref) ==
    ~DLt(n, DInt(1)) /\ DGe(n, RefAt(ref).next) /\ ~(ref >= Len(unitRefs) - 1)

\* the three places that return new Duration(n, u, { precision: p })
Stops(n, ref) ==
    IF DLt(n, DInt(1)) THEN ref <= 0
    ELSE DGe(n, RefAt(ref).next) => ref >= Len(unitRefs) - 1

\* return Duration.concise(made.duration(), made.unit(), q)
Recurse(made, q) ==
    /\ made.ok
    /\ last' = SearchCall(made.d.duration, JSStr(made.d.unit), q,
                          Append(last.path, CallRef))
    /\ UNCHANGED <<heap, input>>

\* the end of the search: the value the first call returns
SearchReturn(id, ret) ==
    last' = [op |-> "Duration.concise.return", self |-> 0,
             args |-> <<JSNum(input.n), input.u, input.p>>, pre |-> <<>>,
             ret |-> ret, path |-> Append(last.path, CallRef)]

ConciseFiner ==
    /\ Searching /\ CallRef # NoRef
    /\ GoesFiner(CallN, CallRef)
    /\ Recurse(FinerCall(CallN, CallU, CallP, CallRef), CallP)

ConciseCoarser ==
    /\ Searching /\ CallRef # NoRef
    /\ GoesCoarser(CallN, CallRef)
    /\ Recurse(CoarserCall(CallN, CallU, CallP, CallRef), JSUndef)

ConciseStop ==
    /\ Searching /\ CallRef # NoRef
    /\ Stops(CallN, CallRef)
    /\ heap' = (1 :> Duration(JSNum(CallN), CallU, CallP, JSUndef))
    /\ SearchReturn(1, JSRef(1))
    /\ UNCHANGED input

\* unitRefs[undefined].next
ConciseThrow ==
    /\ Searching /\ CallRef = NoRef
    /\ SearchReturn(0, JSThrow)
    /\ UNCHANGED <<heap, input>>

InitSearch ==
    /\ heap = <<>>
    /\ input \in SearchInputs
    /\ last = SearchCall(input.n, input.u, input.p, <<>>)

NextSearch == ConciseFiner \/ ConciseCoarser \/ ConciseStop \/ ConciseThrow

SearchFair == <>[]Searching => []<><<NextSearch>>_vars

SpecSearch == InitSearch /\ [][NextSearch]_vars /\ SearchFair

(***************************************************************************)
(* What the properties below read from the state.                          *)
(***************************************************************************)
Returned   == last.ret.t = "object"
Result     == heap[last.ret.ref]
TableUnit(u) == u.t = "string" /\ "s" \in DOMAIN u /\ u.s \in UnitKeys

\* The precision a call asks for: p, or the default 2 when none is given.
Asked(p) == IF p.t = "number" THEN p.i ELSE options.precision

\* Exact comparisons of Numbers: m1 * 2^e1 <= m2 * 2^e2, and |a - b| as a
\* count of units 2^e.
LeqPow2(m1, e1, m2, e2) ==
    BigCmp(BigShl(m1, e1 - Min2(e1, e2)), BigShl(m2, e2 - Min2(e1, e2))) <= 0

BigAbsDiff(a, b) == IF BigCmp(a, b) >= 0 THEN BigSub(a, b) ELSE BigSub(b, a)

AbsDiffAt(a, b, e) ==
    IF a.sg = b.sg THEN BigAbsDiff(BigShl(a.m, a.e - e), BigShl(b.m, b.e - e))
    ELSE BigAdd(BigShl(a.m, a.e - e), BigShl(b.m, b.e - e))

DAbsDiff(a, b) == [m |-> AbsDiffAt(a, b, Min2(a.e, b.e)), e |-> Min2(a.e, b.e)]

\* |a - b| <= 10^-p
WithinTenPow(a, b, p) ==
    LeqPow2(BigMul(DAbsDiff(a, b).m, BigPow10(p)), DAbsDiff(a, b).e, BigOne, 0)

\* |a - b| <= |b| * 2^-k
WithinRelative(a, b, k) == LeqPow2(DAbsDiff(a, b).m, DAbsDiff(a, b).e + k, b.m, b.e)

\* The bits of relative accuracy a conversion there and back keeps: at most 14
\* multiplications and divisions, each within 2^-53 of its exact result.
RoundTripBits == SigBits - 4

(***************************************************************************)
(* C1.  Duration.convert(n, from, to, p), for table units from and to,     *)
(* returns a Duration whose magnitude is the rescaled value rounded to p   *)
(* decimal digits (to 2 when p is not given, to an integer when p is 0).   *)
(* The source does not round: Duration.convert(1, "day", "wk") holds       *)
(* 0.14285714285714285.                                                    *)
(***************************************************************************)
C1_ConvertRounds ==
    (last.op = "Duration.convert" /\ TableUnit(input.from) /\ TableUnit(input.to))
        => /\ Returned
           /\ Result.duration =
                decimalRound(Rescale(input.n, unitRef(input.from.s), unitRef(input.to.s)),
                             Asked(input.p))

(***************************************************************************)
(* C2.  Duration.concise(n, u, p) for n >= 0 and u a table unit (or a      *)
(* value that is no property of units, taken as hr) returns a Duration     *)
(* that is in ms, or in yr, or whose magnitude m has 1 <= m < the factor   *)
(* to the next unit of its unit.                                           *)
(***************************************************************************)
C2_ConciseRange ==
    (last.op = "Duration.concise" /\ input.n.sg = 0 /\ ~(InUnits(input.u) /\ ~TableUnit(input.u)))
        => /\ Returned
           /\ \/ Result.unit = "ms"
              \/ Result.unit = "yr"
              \/ /\ DGe(Result.duration, DInt(1))
                 /\ DLt(Result.duration, RefAt(unitRef(Result.unit)).next)

\* 90 min comes back as 1.5 hr; 60 s, on the boundary, as 1 min
C2_Witness ==
    /\ last.op = "Duration.concise" /\ Returned
    /\ input.n = DInt(60) /\ input.u = JSStr("s")
    /\ Result.unit = "min" /\ Result.duration = DInt(1)

(***************************************************************************)
(* C3.  A unit argument that is none of the 8 table units is taken as hr:  *)
(* Duration.convert returns what the same call with "hr" in its place      *)
(* returns, and Duration.concise returns the magnitude and the unit that   *)
(* the call with "hr" returns.  The source takes the inherited members of  *)
(* units ("constructor", "toString", ...) for units.                       *)
(***************************************************************************)
AsHour(u) == IF TableUnit(u) THEN u ELSE JSStr("hr")

SameAsMade(made) == made.ok /\ Returned /\ Result = made.d

SameSpanAsMade(made) ==
    made.ok /\ Returned /\ Result.duration = made.d.duration /\ Result.unit = made.d.unit

C3_BadUnitIsHour ==
    /\ last.op = "Duration.convert"
          => SameAsMade(Duration_convert(input.n, AsHour(input.from), AsHour(input.to),
                                         input.p))
    /\ last.op = "Duration.concise"
          => SameSpanAsMade(Duration_concise(input.n, AsHour(input.u), input.p))

(***************************************************************************)
(* C4.  Round trip between table units u1 and u2, for n = 0 or              *)
(* 1e-280 <= |n| <= 1e280: the magnitude converted to u2 and the one       *)
(* converted back to u1 are normal Numbers (no product has gone to         *)
(* Infinity, no quotient into the subnormals), and the second differs from *)
(* n by at most |n| * 2^-RoundTripBits, the rounding of the                *)
(* multiplications and divisions made.  (No decimal rounding is made on    *)
(* the way.)                                                               *)
(***************************************************************************)
DAbs(x) == [x EXCEPT !.sg = 0]

\* n = 0 or 1e-280 <= |n| <= 1e280
InRange(n) ==
    n.m = <<>> \/ (DGe(DAbs(n), RangeEnds.min) /\ DGe(RangeEnds.max, DAbs(n)))

\* 0, or 2^-1022 <= |x| < 2^1024: the Numbers on which the unbounded exponent
\* of RoundToDouble is the exponent of binary64.  The factors are above 1, so
\* what a conversion makes on its way lies between what it is given and what
\* it returns.
NormalNumber(x) ==
    \/ x.m = <<>>
    \/ /\ BitLen(x.m) = SigBits
       /\ x.e >= -1022 - (SigBits - 1)
       /\ x.e <= 1023 - (SigBits - 1)

C4_RoundTripRelative ==
    (/\ last.op = "Duration.convert.back"
     /\ TableUnit(input.from) /\ TableUnit(input.to)
     /\ InRange(input.n))
        => /\ Returned
           /\ NormalNumber(heap[1].duration)
           /\ NormalNumber(Result.duration)
           /\ WithinRelative(Result.duration, input.n, RoundTripBits)

\* 1e280 yr are 3.15359993088e290 ms, which are 1.0000000000000002e280 yr
C4_Witness ==
    /\ last.op = "Duration.convert.back" /\ Returned
    /\ input.n = RangeEnds.max /\ input.from = JSStr("yr") /\ input.to = JSStr("ms")
    /\ heap[1].duration = [sg |-> 0, m |-> <<8681, 28366, 14439, 129>>, e |-> 913]
    /\ Result.duration = [sg |-> 0, m |-> <<11377, 19733, 1009, 141>>, e |-> 878]

\* C4 as the specification words it: the difference is at most 10^-p.
C4_RoundTripTenPow ==
    (last.op = "Duration.convert.back" /\ TableUnit(input.from) /\ TableUnit(input.to))
        => Returned /\ WithinTenPow(Result.duration, input.n, Asked(input.p))

(***************************************************************************)
(* C5.  to(u), convert(u) and concise() leave their receiver as it was,    *)
(* and the Duration they return is another object than the receiver; a     *)
(* call that has changed its receiver is a unit, duration or abbr call     *)
(* with an argument.                                                       *)
(***************************************************************************)
Derivations == {"to", "convert", "concise"}
Setters     == {"unit", "duration", "abbr"}

C5_DerivationsLeaveReceiver ==
    /\ last.op \in Derivations
          => /\ heap[last.self] = last.pre
             /\ Returned => (last.ret.ref # last.self /\ last.ret.ref \in Live)
    /\ (last.self \in Live /\ heap[last.self] # last.pre)
          => (last.op \in Setters /\ last.args[1] # JSUndef)

\* to(u) for u the unit of the receiver: an equal Duration, and another object
C5_Witness ==
    /\ last.op = "to" /\ Returned
    /\ last.args[1] = JSStr(last.pre.unit)
    /\ Result = last.pre /\ last.ret.ref # last.self

(***************************************************************************)
(* C6.  The unit of every Duration that exists is one of the 8 table       *)
(* units.  The source also takes an inherited member of units for a unit:  *)
(* new Duration(1, "constructor") holds the unit "constructor".            *)
(***************************************************************************)
C6_UnitInTable == \A i \in Live : heap[i].unit \in UnitKeys

(***************************************************************************)
(* C7.  d.to(u) returns a Duration in unit u (hr when u is no table unit)  *)
(* with the precision and the abbreviation flag of d, and d.convert(u)     *)
(* returns what d.to(u) returns.  The source turns a precision of 0 into   *)
(* 2, and throws for u an inherited member of units.                       *)
(***************************************************************************)
C7_ToKeepsPrecisionAndAbbr ==
    last.op \in {"to", "convert"}
        => /\ Returned
           /\ Result.unit = AsHour(last.args[1]).s
           /\ Result.precision = last.pre.precision
           /\ Result.abbr = last.pre.abbr
           /\ last.op = "convert"
                 => Duration_prototype_to(last.pre, last.args[1]) = RetNew(last.pre, Result)

(***************************************************************************)
(* C8.  d.concise(), for d in a table unit, returns a Duration with the    *)
(* precision and the abbreviation flag of d, whichever way the search      *)
(* went.  The source loses the precision when the search goes to a coarser *)
(* unit: 90 min of precision 3 come back as 1.5 hr of precision 2.         *)
(***************************************************************************)
C8_ConciseKeepsPrecisionAndAbbr ==
    (last.op = "concise" /\ last.pre.unit \in UnitKeys)
        => /\ Returned
           /\ Result.precision = last.pre.precision
           /\ Result.abbr = last.pre.abbr

(***************************************************************************)
(* C9.  toString(sep) returns the magnitude, then sep (one space when sep  *)
(* is no string), then the name of the unit (abbreviated or full, by the   *)
(* flag) with one "s" after it unless it ends in "s".  It does for every   *)
(* Duration in a table unit; for one in an inherited member of units, which*)
(* C6 shows to exist, the source throws.                                   *)
(***************************************************************************)
SepOf(sep) == IF sep.t = "string" THEN sep.chars ELSE <<" ">>
NameOf(d)  == IF d.abbr THEN units[d.unit].abbr ELSE units[d.unit].full
EndsInS(name) == name # <<>> /\ name[Len(name)] = "s"
Plural(name)  == IF EndsInS(name) THEN name ELSE name \o <<"s">>

C9_ToStringRenders ==
    last.op = "toString"
        => /\ last.pre.unit \in UnitKeys
           /\ last.ret = JSChars(NumberToString(last.pre.duration)
                                 \o SepOf(last.args[1]) \o Plural(NameOf(last.pre)))

(***************************************************************************)
(* C10.  unit(s), duration(d) and abbr(o) with an argument return their    *)
(* receiver and change one field of it: the unit to s when s is a table    *)
(* unit, the magnitude to d when d is a number, the flag to the truth      *)
(* value of o; with no argument they return the field and change nothing.  *)
(* The source returns the unit for unit("") and any other falsy argument,  *)
(* and takes an inherited member of units for a unit.                      *)
(***************************************************************************)
SetterReturns(field, after) ==
    IF last.args[1] = JSUndef
    THEN last.ret = field /\ heap[last.self] = last.pre
    ELSE last.ret = JSRef(last.self) /\ heap[last.self] = after

C10_SetterContract ==
    /\ last.op = "unit"
          => SetterReturns(JSStr(last.pre.unit),
                           [last.pre EXCEPT !.unit = IF TableUnit(last.args[1])
                                                     THEN last.args[1].s ELSE @])
    /\ last.op = "duration"
          => SetterReturns(JSNum(last.pre.duration),
                           [last.pre EXCEPT !.duration =
                                IF last.args[1].t = "number" /\ "n" \in DOMAIN last.args[1]
                                THEN last.args[1].n ELSE @])
    /\ last.op = "abbr"
          => SetterReturns(JSBool(last.pre.abbr),
                           [last.pre EXCEPT !.abbr = Truthy(last.args[1])])


(***************************************************************************)
(* C11.  Duration.concise(n, u, p) for n >= 0 ends, by a return or by a    *)
(* throw: a call that is running takes a step, the calls made, the first   *)
(* one counted, are never more than the table has units, and the search    *)
(* comes to its end.                                                       *)
(***************************************************************************)
SearchDone == last.op = "Duration.concise.return"

\* the call that is running returns, throws or calls Duration.concise
SearchCanStep ==
    \/ CallRef = NoRef
    \/ Stops(CallN, CallRef)
    \/ GoesFiner(CallN, CallRef) /\ FinerCall(CallN, CallU, CallP, CallRef).ok
    \/ GoesCoarser(CallN, CallRef) /\ CoarserCall(CallN, CallU, CallP, CallRef).ok

CallsMade == Len(last.path) + (IF Searching THEN 1 ELSE 0)

C11_ConciseTerminates ==
    /\ [](input.n.sg = 0 => (CallsMade <= Len(unitRefs) /\ (Searching => SearchCanStep)))
    /\ <>(input.n.sg = 0 => SearchDone)

\* 0 yr goes through every unit down to 0 ms: 8 calls
C11_Witness ==
    /\ SearchDone /\ Returned /\ input.n.sg = 0
    /\ Len(last.path) = Len(unitRefs)

\* The stepwise search returns what Duration.concise returns.
SearchAgrees ==
    (SearchDone /\ RankOf(input.u) # NoRef)
        => /\ Returned
           /\ Duration_concise(input.n, input.u, input.p)
                 = [ok |-> TRUE, d |-> Result, path |-> last.path]


(***************************************************************************)
(* C12.  Duration.convert(n, from, to, p), for table units of ranks cu and *)
(* du, returns n multiplied by the factors at ranks cu-1, cu-2, ..., du    *)
(* one after the other when du < cu, n divided by the factors at ranks     *)
(* cu, cu+1, ..., du-1 one after the other when du > cu, and n when        *)
(* du = cu.  The ranks are all below that of yr, whose factor is null (0   *)
(* as a multiplier): a magnitude that is not 0 does not come back as 0.    *)
(***************************************************************************)
RECURSIVE TimesFactors(_, _, _)
\* n times the factors at ranks hi, hi - 1, ..., lo, that of lo the last
TimesFactors(n, lo, hi) ==
    IF hi < lo THEN n ELSE DMul(TimesFactors(n, lo + 1, hi), RefAt(lo).next)

RECURSIVE OverFactors(_, _, _)
\* n over the factors at ranks lo, lo + 1, ..., hi, that of hi the last
OverFactors(n, lo, hi) ==
    IF hi < lo THEN n ELSE DDiv(OverFactors(n, lo, hi - 1), RefAt(hi).next)

AlongChain(n, cu, du) ==
    IF du < cu THEN TimesFactors(n, du, cu - 1)
    ELSE IF du > cu THEN OverFactors(n, cu, du - 1)
    ELSE n

FactorRanks(cu, du) == IF du < cu THEN du..(cu - 1) ELSE cu..(du - 1)

C12_ConvertWalksChain ==
    (last.op = "Duration.convert" /\ TableUnit(input.from) /\ TableUnit(input.to))
        => /\ Returned
           /\ Result.duration
                 = AlongChain(input.n, unitRef(input.from.s), unitRef(input.to.s))
           /\ (Len(unitRefs) - 1) \notin FactorRanks(unitRef(input.from.s),
                                                      unitRef(input.to.s))
           /\ input.n # DZero => Result.duration # DZero

\* 5 yr in s: the six factors from mo down to s
C12_Witness ==
    /\ last.op = "Duration.convert" /\ Returned
    /\ input.n = DInt(5) /\ input.from = JSStr("yr") /\ input.to = JSStr("s")
    /\ Result.unit = "s"
    /\ Result.duration = TimesFactors(DInt(5), 1, 6)
    /\ DLt(DSci(1, 8), Result.duration)


(***************************************************************************)
(* C13.  In one search of Duration.concise, each call that a call makes is *)
(* for the unit one rank below or one rank above its own, and in the same  *)
(* direction as the call before it: the rank only goes down or only goes   *)
(* up, one at a time, and no unit is met twice.                            *)
(***************************************************************************)
RankStep == CallRef' - CallRef

C13_RankMonotone ==
    [][Searching'
          => /\ RankStep \in {-1, 1}
             /\ last.path # <<>> => RankStep = CallRef - last.path[Len(last.path)]
             /\ \A i \in 1..Len(last.path) : last.path[i] # CallRef']_vars

\* 1e15 ms go through every unit up to yr
C13_Witness ==
    /\ SearchDone /\ Returned
    /\ last.path = <<0, 1, 2, 3, 4, 5, 6, 7>>


(***************************************************************************)
(* C14.  When Duration.concise(n, u) returns v in unit w, v is n taken     *)
(* along the table from the rank of u to the rank of w, factor by factor,  *)
(* and Duration.concise(v, w) returns v in unit w; for n = 0 or            *)
(* 1e-280 <= |n| <= 1e280, v and v converted from w back to u are normal   *)
(* Numbers, and the second differs from n by at most                       *)
(* |n| * 2^-RoundTripBits, the rounding of the multiplications and         *)
(* divisions made.                                                         *)
(***************************************************************************)
KeepsSpan ==
    (last.op = "Duration.concise" /\ Returned)
        => Result.duration
              = AlongChain(input.n, RankOf(input.u), unitRef(Result.unit))

Idempotent ==
    last.op = "Duration.concise.again"
        => /\ Returned
           /\ Result.duration = heap[1].duration
           /\ Result.unit = heap[1].unit

C14_ConciseKeepsSpan ==
    /\ KeepsSpan
    /\ Idempotent
    /\ (last.op = "Duration.concise.back" /\ InRange(input.n))
          => /\ Returned
             /\ NormalNumber(heap[1].duration)
             /\ NormalNumber(Result.duration)
             /\ WithinRelative(Result.duration, input.n, RoundTripBits)

\* -1e280 yr is below 1 in every unit: the search goes down to
\* -3.15359993088e290 ms, which convert back to -1.0000000000000002e280 yr
C14_Witness ==
    /\ last.op = "Duration.concise.back" /\ Returned
    /\ input.n = DMul(DInt(-1), RangeEnds.max) /\ input.u = JSStr("yr")
    /\ heap[1].unit = "ms"
    /\ heap[1].duration = [sg |-> 1, m |-> <<8681, 28366, 14439, 129>>, e |-> 913]
    /\ Result.duration = [sg |-> 1, m |-> <<11377, 19733, 1009, 141>>, e |-> 878]

\* the second call on what a search that moved returned
C14_WitnessAgain ==
    /\ last.op = "Duration.concise.again" /\ Returned
    /\ TableUnit(input.u) /\ Result.unit # input.u.s

\* C14 as it is worded: converting v from w back to u gives n.
C14_ConciseKeepsSpanExactly ==
    /\ KeepsSpan
    /\ Idempotent
    /\ last.op = "Duration.concise.back"
          => Returned /\ Result.duration = input.n

=============================================================================
